---- MODULE Spec2Model ----
(***************************************************************************)
(* Model of pmempool's output.c: the process-wide output configuration,   *)
(* the verbosity-gated printers, the canonical hex+ASCII dump renderer    *)
(* and the checksum and size formatters.                                  *)
(*                                                                         *)
(* Text is a sequence of one-character strings.  A 64-bit unsigned value   *)
(* that is printed in hexadecimal (size_t offset, uint64_t checksum) is a  *)
(* tuple of 16 nibbles, most significant first.                            *)
(***************************************************************************)
EXTENDS Integers, Sequences, FiniteSets, TLC

VARIABLES out_vlevel, out_column_width, out_fh, out_prefix,
          last, written, attempts, status, str_buff, csum_mem, input

vars == <<out_vlevel, out_column_width, out_fh, out_prefix,
          last, written, attempts, status, str_buff, csum_mem, input>>

config == [vlevel |-> out_vlevel, col_width |-> out_column_width,
           fh |-> out_fh, prefix |-> out_prefix]

(* ------------------------------ bounds -------------------------------- *)

\* full 16-byte rows of a dumped buffer (a short tail row may follow)
MaxRows == 4

(* ----------------------------- constants ------------------------------ *)

HEXDUMP_ROW_WIDTH == 16
HEXDUMP_ROW_HEX_LEN == HEXDUMP_ROW_WIDTH * 3 + 1 + 1
HEXDUMP_ROW_ASCII_LEN == HEXDUMP_ROW_WIDTH + 1
SEPARATOR_CHAR == "-"
NULL == "NULL"
\* the null char pointer: told apart from every string, whose elements are
\* single characters
NullString == <<NULL>>
NUL == "\\0"
INT_MAX == 2147483647

(* --------------------------- text helpers ----------------------------- *)

Min(a, b) == IF a < b THEN a ELSE b

RECURSIVE Flatten(_)
Flatten(ss) == IF ss = <<>> THEN <<>> ELSE Head(ss) \o Flatten(Tail(ss))

Spaces(n) == [i \in 1..n |-> " "]

\* printf's %-*s: left-justified, padded with spaces, never truncated
PadRight(s, w) == IF Len(s) >= w THEN s ELSE s \o Spaces(w - Len(s))

\* An unsigned int as its two 16-bit halves, the more significant first.
U32(n) == <<n \div 65536, n % 65536>>

\* The int that printf's "*" reads from an unsigned int argument: the same
\* 32 bits, negative from 2^31 on.
AsInt(u) == IF u[1] >= 32768 THEN (u[1] - 65536) * 65536 + u[2]
            ELSE u[1] * 65536 + u[2]

\* snprintf(str + c, str_len - c, ...) of piece, where str holds the string
\* built so far: at most str_len - c - 1 characters of piece are stored, and
\* nothing when no room is left.
snprintf(str, c, str_len, piece) ==
  IF str_len - c <= 0 THEN str
  ELSE SubSeq(str, 1, c) \o SubSeq(piece, 1, Min(Len(piece), str_len - c - 1))

HexDigits == <<"0", "1", "2", "3", "4", "5", "6", "7",
               "8", "9", "a", "b", "c", "d", "e", "f">>

\* printf's %02x of one byte
Hex02(b) == <<HexDigits[(b \div 16) + 1], HexDigits[(b % 16) + 1]>>

\* the printable ASCII characters, codes 32..126 (code 96, the grave accent,
\* cannot be written in a TLA+ string and is spelled \x60)
AsciiTable ==
  <<" ", "!", "\"", "#", "$", "%", "&", "'", "(", ")", "*", "+", ",", "-", ".", "/",
    "0", "1", "2", "3", "4", "5", "6", "7", "8", "9", ":", ";", "<", "=", ">", "?",
    "@", "A", "B", "C", "D", "E", "F", "G", "H", "I", "J", "K", "L", "M", "N", "O",
    "P", "Q", "R", "S", "T", "U", "V", "W", "X", "Y", "Z", "[", "\\", "]", "^", "_",
    "\\x60", "a", "b", "c", "d", "e", "f", "g", "h", "i", "j", "k", "l", "m", "n", "o",
    "p", "q", "r", "s", "t", "u", "v", "w", "x", "y", "z", "{", "|", "}", "~">>

\* isprint() in the "C" locale
isprint(c) == c >= 32 /\ c <= 126

(* --------------------- 64-bit values as 16 nibbles -------------------- *)

U64Zero == [i \in 1..16 |-> 0]

\* x + k modulo 2^64, for a small natural k (size_t arithmetic)
RECURSIVE AddU64At(_, _, _)
AddU64At(x, i, carry) ==
  IF i = 0 \/ carry = 0 THEN x
  ELSE LET s == x[i] + carry
       IN AddU64At([x EXCEPT ![i] = s % 16], i - 1, s \div 16)

AddU64(x, k) == AddU64At(x, 16, k)

RECURSIVE StripZeros(_, _)
StripZeros(ds, keep) ==
  IF Len(ds) > keep /\ Head(ds) = 0 THEN StripZeros(Tail(ds), keep) ELSE ds

\* printf's %08lx: lowercase hex, zero-padded to at least 8 digits
Hex08lx(x) == LET ds == StripZeros(x, 8) IN [i \in 1..Len(ds) |-> HexDigits[ds[i] + 1]]

\* printf's %08x of (uint32_t)x: the low 32 bits, always 8 digits
Hex08x32(x) == [i \in 1..8 |-> HexDigits[x[i + 8] + 1]]

(* ------------------------- the stream's writes ------------------------ *)

\* The byte count fprintf returns for one call: negative when the write fails.
fprintf(chunk, fail) == IF fail THEN -1 ELSE Len(chunk)

\* What a series of fprintf calls leaves on the stream.
Emit(chunks, fail) == IF fail THEN <<>> ELSE chunks

(* ------------------------------ helpers ------------------------------- *)

\* a mutant: the gate opens only above the call's level
outv_check_above(vlevel) == out_vlevel > vlevel

outv_check(vlevel) == out_vlevel >= vlevel

\* a mutant: the prefix without its ": "
_out_prefix_bare == IF out_prefix # NullString THEN <<out_prefix>> ELSE <<>>

\* the chunks _out_prefix writes
_out_prefix == IF out_prefix # NullString THEN <<out_prefix \o <<":", " ">>>> ELSE <<>>

out_get_printable_ascii(c) == IF isprint(c) THEN AsciiTable[c - 31] ELSE "."

\* The loop of out_get_ascii_str.  s holds the locals: i, c (the characters
\* formatted so far) and str (what the buffer took of them).
RECURSIVE AsciiStrFrom(_, _, _)
AsciiStrFrom(str_len, datap, s) ==
  IF s.i >= Len(datap) THEN [ret |-> s.c, str |-> s.str]
  ELSE AsciiStrFrom(str_len, datap,
         [i |-> s.i + 1, c |-> s.c + 1,
          str |-> snprintf(s.str, s.c, str_len,
                           <<out_get_printable_ascii(datap[s.i + 1])>>)])

\* [ret |-> characters formatted or -1, str |-> the buffer's string]
out_get_ascii_str(str_len, datap) ==
  IF str_len < Len(datap) THEN [ret |-> -1, str |-> <<>>]
  ELSE AsciiStrFrom(str_len, datap, [i |-> 0, c |-> 0, str |-> <<>>])

\* The loop of out_get_hex_str.  s holds the locals i, c and str, and
\* overrun: a snprintf was handed str_len - c below zero, which as a size_t
\* is a huge size for a destination past the end of the buffer; the string
\* read from the buffer stays as it was.
RECURSIVE HexStrFrom(_, _, _)
HexStrFrom(str_len, datap, s) ==
  IF s.i >= Len(datap) THEN [ret |-> s.c, str |-> s.str, overrun |-> s.overrun]
  ELSE
    LET gap == s.i # 0 /\ s.i % 8 = 0
        c1 == IF gap THEN s.c + 1 ELSE s.c
        s1 == IF gap THEN snprintf(s.str, s.c, str_len, <<" ">>) ELSE s.str
    IN HexStrFrom(str_len, datap,
         [i |-> s.i + 1, c |-> c1 + 3,
          str |-> snprintf(s1, c1, str_len, Hex02(datap[s.i + 1]) \o <<" ">>),
          overrun |-> s.overrun \/ (gap /\ str_len - s.c < 0) \/ str_len - c1 < 0])

\* [ret |-> characters formatted or -1, str |-> the buffer's string]
out_get_hex_str(str_len, datap) ==
  IF str_len < 3 * Len(datap) + 1
  THEN [ret |-> -1, str |-> <<>>, overrun |-> FALSE]
  ELSE HexStrFrom(str_len, datap,
                  [i |-> 0, c |-> 0, str |-> <<>>, overrun |-> FALSE])

\* the "%08lx  %-*s|%-*s|\n" line of one row
RowLine(label, row_hex_str, row_ascii_str) ==
  Hex08lx(label) \o <<" ", " ">>
  \o PadRight(row_hex_str, HEXDUMP_ROW_HEX_LEN) \o <<"|">>
  \o PadRight(row_ascii_str, HEXDUMP_ROW_WIDTH) \o <<"|", "\n">>

StarLine == <<"*", "\n">>

\* memcmp(datap + prev, datap + curr, curr_len) = 0
SameBytes(datap, prev, curr, curr_len) ==
  SubSeq(datap, prev + 1, prev + curr_len) = SubSeq(datap, curr + 1, curr + curr_len)

\* a mutant: the last row is compared like any other
RowRepeatsAlsoLast(datap, s, curr_len) ==
  s.curr # 0 /\ SameBytes(datap, s.prev, s.curr, curr_len)

\* the test that the current row, neither first nor last, repeats the
\* previously printed one
RowRepeats(datap, s, curr_len) ==
  s.len # curr_len /\ s.curr # 0 /\ SameBytes(datap, s.prev, s.curr, curr_len)

\* a mutant: a star for every repeated row
MarkRepeatedEachRow(s) ==
  [s EXCEPT !.chunks = Append(@, StarLine), !.repeated = TRUE]

\* a repeated row: a star for the first of a run only
MarkRepeated(s) ==
  IF ~s.repeated
  THEN [s EXCEPT !.chunks = Append(@, StarLine), !.repeated = TRUE]
  ELSE s

\* a row that is printed
PrintRow(datap, offset, fail, s, curr_len) ==
  LET row == SubSeq(datap, s.curr + 1, s.curr + curr_len)
      rh == out_get_hex_str(HEXDUMP_ROW_HEX_LEN, row)
      ra == out_get_ascii_str(HEXDUMP_ROW_ASCII_LEN, row)
      line == RowLine(AddU64(offset, s.curr), rh.str, ra.str)
  IN IF ra.ret # 0 /\ rh.ret # 0
     THEN [s EXCEPT !.repeated = FALSE, !.prev = s.curr,
                    !.n = fprintf(line, fail),
                    !.chunks = Append(@, line)]
     ELSE [s EXCEPT !.repeated = FALSE, !.prev = s.curr]

\* The row loop of outv_hexdump.  s holds the locals: len, curr, prev,
\* repeated, n, and the chunks handed to fprintf so far.
RECURSIVE HexdumpRows(_, _, _, _)
HexdumpRows(datap, offset, fail, s) ==
  IF s.len = 0 THEN s
  ELSE
    LET curr_len == Min(s.len, HEXDUMP_ROW_WIDTH)
        t == IF RowRepeats(datap, s, curr_len)
             THEN MarkRepeated(s)
             ELSE PrintRow(datap, offset, fail, s, curr_len)
    IN HexdumpRows(datap, offset, fail,
                   [t EXCEPT !.len = s.len - curr_len, !.curr = s.curr + curr_len])

\* (SeparatorLoopPostDecrement is a mutant: "while (n--)".)
\* The separator loop "while (--n) fprintf(...)" for the int n left by the
\* last row's fprintf.  From a negative n the decrement runs down to INT_MIN
\* and then overflows, which is undefined: the build either wraps to INT_MAX
\* and counts down to zero, or never leaves the loop.
\*   dashes   - separator characters attempted before any overflow
\*   overflow - whether --n overflowed
\*   more     - further attempts after a wrap to INT_MAX
\*   returns  - whether the loop ends
SeparatorLoopPostDecrement(n, ub) ==
  IF n > 0 THEN [dashes |-> n, overflow |-> FALSE, more |-> 0, returns |-> TRUE]
  ELSE [dashes |-> (n + INT_MAX) + 1, overflow |-> TRUE,
        more |-> IF ub = "wrap" THEN INT_MAX ELSE 0,
        returns |-> ub = "wrap"]

SeparatorLoop(n, ub) ==
  IF n > 0 THEN [dashes |-> n - 1, overflow |-> FALSE, more |-> 0, returns |-> TRUE]
  ELSE [dashes |-> (n + INT_MAX) + 1, overflow |-> TRUE,
        more |-> IF ub = "wrap" THEN INT_MAX ELSE 0,
        returns |-> ub = "wrap"]

NoSep == [dashes |-> 0, overflow |-> FALSE, more |-> 0, returns |-> TRUE]

\* the result of outv_hexdump once its gate is passed and len > 0
Hexdump(datap, offset, sep, fail, ub) ==
  LET s == HexdumpRows(datap, offset, fail,
             [len |-> Len(datap), curr |-> 0, prev |-> 0,
              repeated |-> FALSE, n |-> 0, chunks |-> <<>>])
      loop == IF sep /\ s.n # 0 THEN SeparatorLoop(s.n, ub) ELSE NoSep
      dashes == IF loop.overflow THEN <<>>
                ELSE [i \in 1..loop.dashes |-> <<SEPARATOR_CHAR>>]
      tail == IF sep /\ s.n # 0 /\ loop.returns THEN <<<<"\n">>>> ELSE <<>>
  IN [chunks |-> s.chunks \o dashes \o tail, rows |-> Len(s.chunks),
      n |-> s.n, loop |-> loop]

(* --------------------------- out_get_checksum ------------------------- *)

\* util_validate_checksum: tells whether the checksum field `mem` holds the
\* checksum `expected` of the buffer around it, and leaves the expected
\* value in the field.
util_validate_checksum(mem, expected) ==
  [valid |-> mem = expected, mem |-> expected]

Chars0x == <<"0", "x">>
CharsOK == <<" ", "[", "O", "K", "]">>
CharsWrong == <<" ", "[", "w", "r", "o", "n", "g", "!", " ", "s", "h", "o", "u", "l", "d",
                " ", "b", "e", ":", " ", "0", "x">>

\* a mutant: the field is left as the validator wrote it
out_get_checksum_kept(mem, expected) ==
  LET csum == mem
      v == util_validate_checksum(mem, expected)
  IN [str |-> IF v.valid
              THEN Chars0x \o Hex08x32(csum) \o CharsOK
              ELSE Chars0x \o Hex08x32(csum) \o CharsWrong \o Hex08x32(v.mem) \o <<"]">>,
      mem |-> v.mem]

\* [str |-> the string returned, mem |-> the checksum field on return]
out_get_checksum(mem, expected) ==
  LET csum == mem
      v == util_validate_checksum(mem, expected)
  IN [str |-> IF v.valid
              THEN Chars0x \o Hex08x32(csum) \o CharsOK
              ELSE Chars0x \o Hex08x32(csum) \o CharsWrong \o Hex08x32(v.mem) \o <<"]">>,
      mem |-> csum]

(* --------------------------- out_get_size_str ------------------------- *)

\* A uint64_t size is 7 limbs in base 1024, most significant first (the
\* first below 16); sums and products carry into one more leading limb.

IsZero(L) == \A i \in 1..Len(L) : L[i] = 0

\* L + c, one limb longer
RECURSIVE AddAt(_, _, _)
AddAt(L, i, c) ==
  IF i = 0 THEN <<c>> \o L
  ELSE LET v == L[i] + c IN AddAt([L EXCEPT ![i] = v % 1024], i - 1, v \div 1024)
AddSmall(L, c) == AddAt(L, Len(L), c)

\* L * m, one limb longer
RECURSIVE MulAt(_, _, _, _)
MulAt(L, m, i, c) ==
  IF i = 0 THEN <<c>> \o L
  ELSE LET v == L[i] * m + c IN MulAt([L EXCEPT ![i] = v % 1024], m, i - 1, v \div 1024)
MulSmall(L, m) == MulAt(L, m, Len(L), 0)

\* [q |-> L \div d, r |-> L % d]
RECURSIVE DivAt(_, _, _, _)
DivAt(L, d, i, r) ==
  IF i > Len(L) THEN [q |-> L, r |-> r]
  ELSE LET v == r * 1024 + L[i] IN DivAt([L EXCEPT ![i] = v \div d], d, i + 1, v % d)
DivSmall(L, d) == DivAt(L, d, 1, 0)

RECURSIVE DecDigits(_)
DecDigits(L) ==
  IF IsZero(L) THEN <<>>
  ELSE LET dm == DivSmall(L, 10) IN DecDigits(dm.q) \o <<HexDigits[dm.r + 1]>>

\* printf's %lu
FmtLu(L) == IF IsZero(L) THEN <<"0">> ELSE DecDigits(L)

\* 2^64 - L for a 64-bit L >= 2^63, as 7 limbs
Negated(L) ==
  LET c == [i \in 1..7 |-> IF i = 1 THEN 15 - L[i] ELSE 1023 - L[i]]
  IN Tail(AddSmall(c, 1))

\* printf's %ld of a uint64_t argument: read as a signed long
FmtLd(L) == IF L[1] >= 8 THEN <<"-">> \o FmtLu(Negated(L)) ELSE FmtLu(L)

BitLen(x) == CHOOSE b \in 0..11 : x < 2^b /\ (b = 0 \/ x >= 2^(b - 1))

\* (double)size: the nearest value of 53 significant bits, ties to even,
\* as 8 limbs
ToDouble(L) ==
  IF IsZero(L) THEN <<0>> \o L
  ELSE
    LET t == CHOOSE i \in 1..7 : L[i] # 0 /\ \A j \in 1..(i - 1) : L[j] = 0
        total == 10 * (7 - t) + BitLen(L[t])
    IN IF total <= 53 THEN <<0>> \o L
       ELSE LET p == 2^(total - 53)
                low == L[6] * 1024 + L[7]
                r == low % p
                odd == (low \div p) % 2 = 1
                up == 2 * r > p \/ (2 * r = p /\ odd)
                kept == low - r + (IF up THEN p ELSE 0)
            IN AddSmall([L EXCEPT ![6] = 0, ![7] = 0], kept)

\* D / 1024^k >= 1024
AtLeast1024(D, k) == \E i \in 1..(Len(D) - (k + 1)) : D[i] # 0

\* printf's %.1f of D / 1024^k
Fmt1f(D, k) ==
  LET n == MulSmall(D, 10)
      whole == SubSeq(n, 1, Len(n) - k)
      rem == SubSeq(n, Len(n) - k + 1, Len(n))
      over == k > 0 /\ (rem[1] > 512 \/ (rem[1] = 512 /\ ~IsZero(Tail(rem))))
      tie == k > 0 /\ rem[1] = 512 /\ IsZero(Tail(rem))
      tenths == IF over \/ (tie /\ whole[Len(whole)] % 2 = 1)
                THEN AddSmall(whole, 1) ELSE whole
      ds == FmtLu(tenths)
  IN IF Len(ds) = 1 THEN <<"0", ".">> \o ds
     ELSE SubSeq(ds, 1, Len(ds) - 1) \o <<".">> \o <<ds[Len(ds)]>>

\* the string a char buffer holds: its characters up to the first NUL
CStr(buf) ==
  IF \E i \in 1..Len(buf) : buf[i] = NUL
  THEN SubSeq(buf, 1, (CHOOSE i \in 1..Len(buf) :
                          buf[i] = NUL /\ \A j \in 1..(i - 1) : buf[j] # NUL) - 1)
  ELSE buf

units == <<"K", "M", "G", "T", NUL>>
nunits == Len(units)

\* the loop "while (csize >= 1024 && i < nunits)": the i it ends with
RECURSIVE SizeLoop(_, _)
SizeLoop(csize, i) ==
  IF AtLeast1024(csize, i + 1) /\ i < nunits THEN SizeLoop(csize, i + 1) ELSE i

out_get_size_str(size, human) ==
  IF human = 0 THEN FmtLd(size)
  ELSE LET d == ToDouble(size)
           i == SizeLoop(d, -1)
       IN IF i >= 0 /\ i < nunits
          THEN IF human = 1
               THEN CStr(Fmt1f(d, i + 1) \o <<units[i + 1]>>)
               ELSE CStr(Fmt1f(d, i + 1) \o <<units[i + 1]>>
                         \o <<" ", "[">> \o FmtLu(size) \o <<"]">>)
          ELSE FmtLd(size)

(* ------------------------------- inputs ------------------------------- *)

SetLevels == {0, 1}
Levels == {0, 1, 2}
Widths == {U32(0), U32(20), <<65535, 65532>>}
Streams == {"stdout", "file"}
Prefixes == {NullString, <<>>, <<"P">>}
Messages == {<<>>, <<"o", "k", "\n">>, <<"a", "\n", "b", "\n">>}
Fields == {<<>>, <<"i", "d">>}
Values == {<<>>, <<"7">>}
UBOutcomes == {"wrap", "diverge"}

\* sep, fail and the outcome of the undefined decrement, which only a failed
\* write with a separator reaches
DumpModes == {<<FALSE, FALSE, "wrap">>, <<TRUE, FALSE, "wrap">>,
              <<FALSE, TRUE, "wrap">>, <<TRUE, TRUE, "wrap">>,
              <<TRUE, TRUE, "diverge">>}

RowFF == [i \in 1..HEXDUMP_ROW_WIDTH |-> 255]
RowAP == [i \in 1..HEXDUMP_ROW_WIDTH |-> 64 + i]
\* differs from RowFF in its last byte only
RowF0 == [i \in 1..HEXDUMP_ROW_WIDTH |-> IF i = HEXDUMP_ROW_WIDTH THEN 0 ELSE 255]
RowPatterns == {RowFF, RowAP, RowF0}

Hello == <<72, 101, 108, 108, 111, 10>>
Tails == {<<>>, <<255>>, SubSeq(RowAP, 1, 9)}

RowSeqs == UNION {[1..k -> RowPatterns] : k \in 0..MaxRows}
Buffers == {Flatten(rs) \o t : rs \in RowSeqs, t \in Tails}
SmallBuffers == {<<>>, Hello, RowFF \o RowFF \o RowFF}

Off100 == [U64Zero EXCEPT ![14] = 1]
\* 0xffffffe0: the labels cross 2^32 inside a dump
OffNear32 ==
  [i \in 1..16 |-> IF i <= 8 THEN 0 ELSE IF i = 15 THEN 14 ELSE IF i = 16 THEN 0 ELSE 15]
\* 0xfffffffffffffff0: the labels wrap around 2^64
OffNear64 == [i \in 1..16 |-> IF i = 16 THEN 0 ELSE 15]
Offsets == {U64Zero, OffNear32, OffNear64}

(* ------------------------------- state -------------------------------- *)

NoCall == [op |-> "none", vlevel |-> 0, pre |-> config, fail |-> FALSE,
           msg |-> <<>>, field |-> <<>>, datap |-> <<>>, offset |-> U64Zero,
           sep |-> FALSE]

NoAttempts == [calls |-> 0, loop |-> NoSep]

NoInput == [f |-> "none"]

Init ==
  /\ out_vlevel = 0
  /\ out_column_width = U32(20)
  /\ out_fh = NULL
  /\ out_prefix = NullString
  /\ last = NoCall
  /\ written = <<>>
  /\ attempts = NoAttempts
  /\ status = "returned"
  /\ str_buff = <<>>
  /\ csum_mem = U64Zero
  /\ input = NoInput

Running == status = "returned"

Config == <<out_vlevel, out_column_width, out_fh, out_prefix>>
Formatters == <<str_buff, csum_mem>>

\* a call that writes nothing
Silent(call) ==
  /\ last' = call
  /\ written' = <<>>
  /\ attempts' = NoAttempts
  /\ status' = "returned"

\* fprintf on a stream that was never bound dereferences a null FILE pointer
NullStream(call) ==
  /\ last' = call
  /\ written' = <<>>
  /\ attempts' = NoAttempts
  /\ status' = "crashed"

\* the fprintf calls of `chunks`, in order, on the bound stream
Write(call, chunks, fail) ==
  /\ last' = call
  /\ written' = Emit(chunks, fail)
  /\ attempts' = [calls |-> Len(chunks), loop |-> NoSep]
  /\ status' = "returned"

(* ------------------------------ actions ------------------------------- *)

out_set_col_width(col_width) ==
  /\ Running
  /\ out_column_width' = col_width
  /\ Silent([NoCall EXCEPT !.op = "out_set_col_width"])
  /\ UNCHANGED <<out_vlevel, out_fh, out_prefix, Formatters>>

out_set_vlevel(vlevel) ==
  /\ Running
  /\ out_vlevel' = vlevel
  /\ out_fh' = IF out_fh = NULL THEN "stdout" ELSE out_fh
  /\ Silent([NoCall EXCEPT !.op = "out_set_vlevel", !.vlevel = vlevel])
  /\ UNCHANGED <<out_column_width, out_prefix, Formatters>>

out_set_prefix(prefix) ==
  /\ Running
  /\ out_prefix' = prefix
  /\ Silent([NoCall EXCEPT !.op = "out_set_prefix"])
  /\ UNCHANGED <<out_vlevel, out_column_width, out_fh, Formatters>>

out_set_stream(stream) ==
  /\ Running
  /\ out_fh' = stream
  /\ Silent([NoCall EXCEPT !.op = "out_set_stream"])
  /\ UNCHANGED <<out_vlevel, out_column_width, out_prefix, Formatters>>

outv(vlevel, msg, fail) ==
  LET call == [NoCall EXCEPT !.op = "outv", !.vlevel = vlevel, !.msg = msg,
                             !.fail = fail]
  IN /\ Running
     /\ IF ~outv_check(vlevel) THEN Silent(call)
        ELSE IF out_fh = NULL THEN NullStream(call)
        ELSE Write(call, _out_prefix \o <<msg>>, fail)
     /\ UNCHANGED <<Config, Formatters>>

\* What fprintf(out_fh, "%-*s : ", out_column_width, field) formats: the width
\* is read as an int, and a negative width pads to its magnitude.  For the
\* width -2^31 the padding runs to 2^31 characters and the output stops there.
FieldLabel(field, col_width) ==
  LET width == AsInt(col_width)
  IN IF width = -INT_MAX - 1
     THEN PadRight(field, INT_MAX) \o <<" ">>
     ELSE PadRight(field, IF width < 0 THEN -width ELSE width) \o <<" ", ":", " ">>

outv_field(vlevel, field, value, fail) ==
  LET call == [NoCall EXCEPT !.op = "outv_field", !.vlevel = vlevel,
                             !.field = field, !.msg = value, !.fail = fail]
  IN /\ Running
     /\ IF ~outv_check(vlevel) THEN Silent(call)
        ELSE IF out_fh = NULL THEN NullStream(call)
        ELSE Write(call,
                   _out_prefix \o <<FieldLabel(field, out_column_width),
                                    value, <<"\n">>>>,
                   fail)
     /\ UNCHANGED <<Config, Formatters>>

outv_hexdump(vlevel, datap, offset, sep, fail, ub) ==
  LET call == [NoCall EXCEPT !.op = "outv_hexdump", !.vlevel = vlevel,
                             !.datap = datap, !.offset = offset, !.sep = sep,
                             !.fail = fail]
      r == Hexdump(datap, offset, sep, fail, ub)
  IN /\ Running
     /\ IF ~outv_check(vlevel) \/ Len(datap) <= 0 THEN Silent(call)
        ELSE IF out_fh = NULL THEN NullStream(call)
        ELSE /\ last' = call
             /\ written' = Emit(r.chunks, fail)
             /\ attempts' = [calls |-> r.rows, loop |-> r.loop]
             /\ status' = IF r.loop.returns THEN "returned" ELSE "diverged"
     /\ UNCHANGED <<Config, Formatters>>

(* The program: any sequence of configuration and print calls. *)

SetColWidth == \E w \in Widths : out_set_col_width(w) /\ UNCHANGED input
SetVlevel == \E v \in SetLevels : out_set_vlevel(v) /\ UNCHANGED input
SetPrefix == \E p \in Prefixes : out_set_prefix(p) /\ UNCHANGED input
SetStream == \E f \in Streams : out_set_stream(f) /\ UNCHANGED input
Outv ==
  \E v \in Levels, m \in Messages, fail \in BOOLEAN :
     outv(v, m, fail) /\ UNCHANGED input
OutvField ==
  \E v \in Levels, f \in Fields, x \in Values, fail \in BOOLEAN :
     outv_field(v, f, x, fail) /\ UNCHANGED input
OutvHexdump ==
  \E v \in Levels, d \in SmallBuffers, m \in DumpModes :
     outv_hexdump(v, d, Off100, m[1], m[2], m[3]) /\ UNCHANGED input

Next ==
  \/ SetColWidth
  \/ SetVlevel
  \/ SetPrefix
  \/ SetStream
  \/ Outv
  \/ OutvField
  \/ OutvHexdump

Spec == Init /\ [][Next]_vars

(* The dump renderer alone: one dump of each buffer, from a configured    *)
(* program (verbosity 1, standard output bound).                          *)

DumpInputs ==
  {[f |-> "outv_hexdump", vlevel |-> 1, datap |-> d, offset |-> o,
    sep |-> m[1], fail |-> m[2], ub |-> m[3]] :
     d \in Buffers, o \in Offsets, m \in {<<FALSE, FALSE, "wrap">>, <<TRUE, FALSE, "wrap">>}}
  \cup
  {[f |-> "outv_hexdump", vlevel |-> v, datap |-> d, offset |-> U64Zero,
    sep |-> m[1], fail |-> m[2], ub |-> m[3]] :
     v \in {1, 2}, d \in SmallBuffers \cup {RowFF \o <<255>>}, m \in DumpModes}

InitDump ==
  /\ out_vlevel = 1
  /\ out_column_width = U32(20)
  /\ out_fh = "stdout"
  /\ out_prefix = NullString
  /\ last = NoCall
  /\ written = <<>>
  /\ attempts = NoAttempts
  /\ status = "returned"
  /\ str_buff = <<>>
  /\ csum_mem = U64Zero
  /\ input \in DumpInputs

OutvHexdumpInput ==
  /\ input.f = "outv_hexdump"
  /\ outv_hexdump(input.vlevel, input.datap, input.offset, input.sep,
                  input.fail, input.ub)
  /\ input' = NoInput

NextDump == OutvHexdumpInput

SpecDump == InitDump /\ [][NextDump]_vars

(* The formatters alone: one call on each input. *)

Csum0 == U64Zero
\* 0x00000000deadbeef
CsumLow == [i \in 1..16 |-> IF i <= 8 THEN 0 ELSE <<13, 14, 10, 13, 11, 14, 14, 15>>[i - 8]]
\* 0x00000001deadbeef: the low half of CsumLow under another high half
CsumHigh == [CsumLow EXCEPT ![8] = 1]
\* 0x0123456789abcdef
CsumMixed == [i \in 1..16 |-> i - 1]
CsumMax == [i \in 1..16 |-> 15]
Csums == {Csum0, CsumLow, CsumHigh, CsumMixed, CsumMax}

Sizes ==
  {[i \in 1..7 |-> 0]}
  \cup
  {[i \in 1..7 |-> IF i < p THEN 0 ELSE IF i = p THEN a ELSE IF i = p + 1 THEN b ELSE c] :
     p \in 1..7, a \in {1, 8, 15}, b \in {0, 512, 1023}, c \in {0, 1023}}

FmtInputs ==
  {[f |-> "out_get_checksum", stored |-> a, expected |-> b] : a \in Csums, b \in Csums}
  \cup
  {[f |-> "out_get_size_str", size |-> n, human |-> h] : n \in Sizes, h \in {0, 1, 2}}

InitFmt ==
  /\ out_vlevel = 0
  /\ out_column_width = U32(20)
  /\ out_fh = NULL
  /\ out_prefix = NullString
  /\ last = NoCall
  /\ written = <<>>
  /\ attempts = NoAttempts
  /\ status = "returned"
  /\ str_buff = <<>>
  /\ input \in FmtInputs
  /\ csum_mem = IF input.f = "out_get_checksum" THEN input.stored ELSE U64Zero

OutGetChecksum ==
  /\ input.f = "out_get_checksum"
  /\ last.op = "none"
  /\ LET r == out_get_checksum(csum_mem, input.expected)
     IN str_buff' = r.str /\ csum_mem' = r.mem
  /\ last' = [NoCall EXCEPT !.op = "out_get_checksum"]
  /\ UNCHANGED <<Config, written, attempts, status, input>>

OutGetSizeStr ==
  /\ input.f = "out_get_size_str"
  /\ last.op = "none"
  /\ str_buff' = out_get_size_str(input.size, input.human)
  /\ last' = [NoCall EXCEPT !.op = "out_get_size_str"]
  /\ UNCHANGED <<Config, written, attempts, status, input, csum_mem>>

NextFmt ==
  \/ OutGetChecksum
  \/ OutGetSizeStr

SpecFmt == InitFmt /\ [][NextFmt]_vars

(* ===================== reading the stream back ======================== *)

PrintOps == {"outv", "outv_field", "outv_hexdump"}
IsDump == last.op = "outv_hexdump"
GateOpen == last.pre.vlevel >= last.vlevel

\* the last call was a dump that passed its gate with data, on a bound
\* stream that took every write
Dumped ==
  /\ IsDump /\ GateOpen /\ Len(last.datap) >= 1
  /\ last.pre.fh # NULL /\ ~last.fail /\ status = "returned"

\* the newline-terminated lines of a text (characters after the last
\* newline belong to no line)
LinesOf(text) ==
  LET t == text
      nl == {i \in 1..Len(t) : t[i] = "\n"}
      n == Cardinality(nl)
      end == [k \in 1..n |-> CHOOSE e \in nl : Cardinality({p \in nl : p < e}) = k - 1]
  IN [k \in 1..n |-> SubSeq(t, IF k = 1 THEN 1 ELSE end[k - 1] + 1, end[k])]

\* the text the last call left on the stream, and its lines
Text == Flatten(written)
Lines == LinesOf(Text)
\* every character written belongs to a newline-terminated line
WholeLines == LET t == Text IN Len(t) = 0 \/ t[Len(t)] = "\n"

HexDigitSet == {HexDigits[i] : i \in 1..16}
HexVal(c) == CHOOSE v \in 0..15 : HexDigits[v + 1] = c

IsStar(l) == l = <<"*", "\n">>
IsSepLine(l) ==
  /\ Len(l) >= 2
  /\ l[Len(l)] = "\n"
  /\ \A i \in 1..(Len(l) - 1) : l[i] = "-"
IsDataLine(l) == Len(l) > 2 /\ l[1] \in HexDigitSet

\* the dump's own lines: all lines but a trailing separator
DumpLinesOf(ls) ==
  IF Len(ls) >= 1 /\ IsSepLine(ls[Len(ls)]) THEN SubSeq(ls, 1, Len(ls) - 1) ELSE ls
DumpLines == DumpLinesOf(Lines)

\* number of digits of a data line's offset label
LabelLen(l) ==
  (CHOOSE i \in 1..Len(l) : l[i] = " " /\ \A j \in 1..(i - 1) : l[j] # " ") - 1

\* the label of a data line read back as a 64-bit value
LabelOf(l) ==
  LET d == LabelLen(l)
  IN [i \in 1..16 |-> IF i <= 16 - d THEN 0 ELSE HexVal(l[i - (16 - d)])]

\* the bytes of a data line's hex column, read back
BytesOf(l) ==
  LET bar == CHOOSE i \in 1..Len(l) : l[i] = "|" /\ \A j \in 1..(i - 1) : l[j] # "|"
      field == SubSeq(l, LabelLen(l) + 1, bar - 1)
      digits == SelectSeq(field, LAMBDA c : c # " ")
  IN [i \in 1..(Len(digits) \div 2) |->
        16 * HexVal(digits[2 * i - 1]) + HexVal(digits[2 * i])]

\* the rows of the dumped buffer, numbered from 0
NumRows == (Len(last.datap) + HEXDUMP_ROW_WIDTH - 1) \div HEXDUMP_ROW_WIDTH
LastRow == NumRows - 1
Row(i) ==
  SubSeq(last.datap, HEXDUMP_ROW_WIDTH * i + 1,
         Min(Len(last.datap), HEXDUMP_ROW_WIDTH * (i + 1)))
RowLabel(i) == AddU64(last.offset, HEXDUMP_ROW_WIDTH * i)

\* The dump's lines read back: for each line 0 for a `*`, -1 for a line that
\* is neither a `*` nor the verbatim data row of a buffer row, and otherwise
\* 1 + the number of the row it shows.
ShownOf(ls) ==
  [k \in 1..Len(ls) |->
     IF IsStar(ls[k]) THEN 0
     ELSE IF ~IsDataLine(ls[k]) THEN -1
     ELSE LET lab == LabelOf(ls[k])
              by == BytesOf(ls[k])
              rows == {i \in 0..LastRow : RowLabel(i) = lab /\ Row(i) = by}
          IN IF rows = {} THEN -1 ELSE 1 + CHOOSE i \in rows : TRUE]
Shown == ShownOf(DumpLines)

RowsIn(shown) == {shown[k] - 1 : k \in {j \in 1..Len(shown) : shown[j] >= 1}}
StarsIn(shown) == {k \in 1..Len(shown) : shown[k] = 0}

\* the most recently printed row before row i
PrevPrinted(printed, i) ==
  CHOOSE j \in printed : j < i /\ \A m \in printed : m < i => m <= j

(* ============================== claims ================================ *)

\* C1: in every dump of at least one byte through an open gate, the first row
\* and the final (possibly short) row are written verbatim as data rows, also
\* when the final row's bytes equal the bytes before them; a row strictly
\* between them is left out if and only if its 16 bytes equal the 16 bytes of
\* the most recently printed row.
ThmC1 ==
  Dumped =>
    LET shown == Shown
        printed == RowsIn(shown)
    IN /\ WholeLines
       /\ Len(shown) >= 1
       /\ shown[1] = 1
       /\ shown[Len(shown)] = 1 + LastRow
       /\ \A i \in 1..(LastRow - 1) :
             (i \notin printed) <=> (Row(i) = Row(PrevPrinted(printed, i)))

\* a dump whose short final row repeats the row before it, after a
\* suppressed middle row
WitC1 ==
  /\ Dumped
  /\ NumRows >= 4
  /\ Len(last.datap) % HEXDUMP_ROW_WIDTH # 0
  /\ Row(LastRow) = SubSeq(Row(LastRow - 1), 1, Len(Row(LastRow)))
  /\ \E i \in 1..(LastRow - 1) : i \notin RowsIn(Shown)

\* C2: every maximal run of suppressed rows shows as exactly one `*` line
\* between the printed row before the run and the next printed row: the dump
\* starts and ends with a data row, no two `*` lines are adjacent, two
\* adjacent data rows show consecutive rows and a `*` stands for at least one
\* row; k >= 3 identical full rows give the first row, one `*`, the last row.
ThmC2 ==
  Dumped =>
    LET shown == Shown
        n == Len(shown)
    IN /\ n >= 1
       /\ \A k \in 1..n : shown[k] >= 0
       /\ shown[1] >= 1
       /\ shown[n] >= 1
       /\ \A k \in 1..(n - 1) :
             /\ ~(shown[k] = 0 /\ shown[k + 1] = 0)
             /\ (shown[k] >= 1 /\ shown[k + 1] >= 1) => shown[k + 1] = shown[k] + 1
             /\ (shown[k] >= 1 /\ shown[k + 1] = 0) => shown[k + 2] > shown[k] + 1
       /\ (/\ NumRows >= 3
           /\ Len(last.datap) = HEXDUMP_ROW_WIDTH * NumRows
           /\ \A i \in 1..Len(last.datap) : last.datap[i] = last.datap[1])
          => shown = <<1, 0, 1 + LastRow>>

\* a dump with two separate suppressed runs
WitC2 == Dumped /\ Cardinality(StarsIn(Shown)) = 2

\* where byte j (from 0) of a row starts in the hex column, from 1
TokenAt(j) == 3 * j + (IF j >= 8 THEN 1 ELSE 0) + 1

\* the layout of the data line l of a row of bytes `row`, the hex column
\* being w characters wide
DataLineLayout(l, row, w) ==
  LET d == LabelLen(l)
      m == Len(row)
      field == SubSeq(l, d + 3, d + 2 + w)
      ascii == SubSeq(l, d + w + 4, d + w + 3 + HEXDUMP_ROW_WIDTH)
      digitAt == {TokenAt(j) : j \in 0..(m - 1)} \cup {TokenAt(j) + 1 : j \in 0..(m - 1)}
  IN /\ d >= 8
     /\ \A j \in 1..d : l[j] \in HexDigitSet
     /\ d > 8 => l[1] # "0"
     /\ Len(l) = d + 2 + w + 1 + HEXDUMP_ROW_WIDTH + 2
     /\ l[d + 1] = " " /\ l[d + 2] = " "
     /\ \A j \in 0..(m - 1) :
           <<field[TokenAt(j)], field[TokenAt(j) + 1]>>
              = <<HexDigits[(row[j + 1] \div 16) + 1], HexDigits[(row[j + 1] % 16) + 1]>>
     /\ \A q \in 1..w : q \notin digitAt => field[q] = " "
     /\ l[d + w + 3] = "|"
     /\ \A j \in 1..HEXDUMP_ROW_WIDTH :
           ascii[j] = IF j > m THEN " "
                      ELSE IF row[j] >= 32 /\ row[j] <= 126 THEN AsciiTable[row[j] - 31]
                      ELSE "."
     /\ l[d + w + 4 + HEXDUMP_ROW_WIDTH] = "|"
     /\ l[d + w + 5 + HEXDUMP_ROW_WIDTH] = "\n"

\* C5 as stated: the hex column is 16*3+1 = 49 characters wide, so one space
\* stands between a full row's last hex token and `|`, the label has 8 digits
\* and every data row is equally long.
CexC5 ==
  Dumped =>
    LET ls == DumpLines
        shown == ShownOf(ls)
    IN \A k \in 1..Len(ls) :
          shown[k] >= 1 =>
             /\ LabelLen(ls[k]) = 8
             /\ DataLineLayout(ls[k], Row(shown[k] - 1), 16 * 3 + 1)

\* C6: a dump with sep set that passes its gate with at least one byte ends
\* with exactly one separator line, made of `-` characters and a newline, as
\* long as the data row before it (short final rows included); without sep,
\* with the gate closed or with no bytes there is no separator line.
ThmC6 ==
  (IsDump /\ status = "returned" /\ last.pre.fh # NULL) =>
    LET ls == Lines
        n == Len(ls)
        seps == {k \in 1..n : IsSepLine(ls[k])}
    IN IF last.sep /\ GateOpen /\ Len(last.datap) >= 1
       THEN ~last.fail =>
              /\ WholeLines
              /\ n >= 2
              /\ seps = {n}
              /\ IsDataLine(ls[n - 1])
              /\ Len(ls[n]) = Len(ls[n - 1])
              /\ Len(ls[n]) = LabelLen(ls[n - 1]) + 71
       ELSE seps = {} /\ \A c \in 1..Len(written) : written[c] # <<SEPARATOR_CHAR>>

\* a separated dump whose final row is short
WitC6 ==
  /\ Dumped
  /\ last.sep
  /\ NumRows >= 2
  /\ Len(last.datap) % HEXDUMP_ROW_WIDTH # 0
  /\ IsSepLine(Lines[Len(Lines)])

\* the last call was a print call that passed its gate (a dump: with data)
Passed == last.op \in PrintOps /\ GateOpen /\ (IsDump => Len(last.datap) >= 1)

BeginsWith(t, p) == Len(t) >= Len(p) /\ SubSeq(t, 1, Len(p)) = p

\* C3: outv, outv_field and outv_hexdump (len >= 1) write to the configured
\* stream if and only if the configured verbosity is at least the call's
\* level; with the gate closed, or a dump of no bytes, nothing is written and
\* verbosity, column width, prefix and stream are as before the call.
ThmC3 ==
  last.op \in PrintOps =>
    /\ ~Passed =>
          /\ written = <<>>
          /\ attempts = NoAttempts
          /\ config = last.pre
          /\ status = "returned"
    /\ (Passed /\ last.pre.fh # NULL) =>
          /\ attempts.calls >= 1
          /\ (/\ ~last.fail
              /\ ~(last.op = "outv" /\ last.msg = <<>> /\ last.pre.prefix = NullString))
             => Text # <<>>

\* a dump at exactly the configured level, above 0, that reached the stream
WitC3 ==
  /\ Dumped
  /\ last.vlevel = last.pre.vlevel
  /\ last.vlevel >= 1
  /\ Text # <<>>

\* C4 as stated: with a prefix P set every line a gated call writes begins
\* with "P: ", the dump's rows, `*` and separator included; with no prefix no
\* line begins with ": ".
CexC4 ==
  (Passed /\ last.pre.fh # NULL /\ ~last.fail /\ status = "returned") =>
    LET ls == Lines
    IN IF last.pre.prefix # NullString
       THEN \A k \in 1..Len(ls) : BeginsWith(ls[k], last.pre.prefix \o <<":", " ">>)
       ELSE \A k \in 1..Len(ls) : ~BeginsWith(ls[k], <<":", " ">>)

\* C4, amended: with a prefix P set, what an outv or outv_field call that
\* passes its gate writes begins with "P: ", once per call and not once per
\* line, followed by the call's own text; outv_hexdump writes its rows, its
\* `*` lines and its separator with no prefix; with no prefix set a call
\* writes its own text only.
ThmC4 ==
  (Passed /\ last.pre.fh # NULL /\ ~last.fail /\ status = "returned") =>
    LET t == Text
        p == IF last.pre.prefix # NullString THEN last.pre.prefix \o <<":", " ">> ELSE <<>>
        own == SubSeq(t, Len(p) + 1, Len(t))
        ls == Lines
    IN CASE last.op = "outv" ->
              BeginsWith(t, p) /\ own = last.msg
         [] last.op = "outv_field" ->
              /\ BeginsWith(t, p)
              /\ BeginsWith(own, last.field)
              /\ Len(ls) = 1
              /\ LET w == AsInt(last.pre.col_width)
                     pad == IF w < 0 THEN -w ELSE w
                 IN Len(own) =
                      (IF Len(last.field) > pad THEN Len(last.field) ELSE pad)
                      + 3 + Len(last.msg) + 1
         [] last.op = "outv_hexdump" ->
              /\ WholeLines
              /\ \A k \in 1..Len(ls) :
                    /\ IsDataLine(ls[k]) \/ IsStar(ls[k]) \/ IsSepLine(ls[k])
                    /\ last.pre.prefix # NullString => ~BeginsWith(ls[k], p)

\* a separated dump with a `*` line while the prefix "P" is set
WitC4 ==
  /\ Dumped
  /\ last.pre.prefix = <<"P">>
  /\ last.sep
  /\ \E k \in 1..Len(Lines) : IsStar(Lines[k])

\* C9 as stated: when the stream's writes fail, every print call still
\* returns, after at most one attempt per row or `*` and one dump line's
\* width of separator characters.
CexC9 ==
  (Passed /\ last.pre.fh # NULL /\ last.fail) =>
    /\ status = "returned"
    /\ IsDump => attempts.calls <= NumRows
    /\ ~attempts.loop.overflow
    /\ attempts.loop.more = 0
    /\ attempts.loop.dashes <= 16 + 71

\* C10 as stated: from the unconfigured program, whatever the calls, the
\* stream is bound whenever a print call passes its gate and writes; and
\* out_set_vlevel binds standard output exactly when no stream is bound.
CexC10 ==
  /\ Passed => last.pre.fh # NULL
  /\ last.op = "out_set_vlevel" =>
        out_fh = IF last.pre.fh = NULL THEN "stdout" ELSE last.pre.fh

\* the 8 hex digits of t from position i on, read back as 8 nibbles
Hex8At(t, i) == [j \in 1..8 |-> HexVal(t[i + j - 1])]
Low32(x) == [j \in 1..8 |-> x[j + 8]]

\* C7: out_get_checksum leaves the checksum field as it found it, whether
\* the validator found it valid or overwrote it with the expected value; the
\* string shows the stored value (its low 32 bits, as "0x%08x" prints them)
\* and, only when invalid, the expected value.
ThmC7 ==
  last.op = "out_get_checksum" =>
    LET t == str_buff
    IN /\ csum_mem = input.stored
       /\ BeginsWith(t, <<"0", "x">>)
       /\ Len(t) >= 10
       /\ \A j \in 3..10 : t[j] \in HexDigitSet
       /\ Hex8At(t, 3) = Low32(input.stored)
       /\ IF input.stored = input.expected
          THEN SubSeq(t, 11, Len(t)) = <<" ", "[", "O", "K", "]">>
          ELSE /\ Len(t) = 41
               /\ SubSeq(t, 11, 18) = <<" ", "[", "w", "r", "o", "n", "g", "!">>
               /\ \A j \in 33..40 : t[j] \in HexDigitSet
               /\ Hex8At(t, 33) = Low32(input.expected)
               /\ t[41] = "]"

\* a call on an invalid checksum whose expected value differs in its low half
WitC7 ==
  /\ last.op = "out_get_checksum"
  /\ input.stored # input.expected
  /\ Low32(input.stored) # Low32(input.expected)
  /\ csum_mem = input.stored
  /\ Len(str_buff) = 41

\* the first character of a size string that is no part of a number
UnitOf(t) ==
  LET numeric == HexDigitSet \cup {".", "-"}
      at == {i \in 1..Len(t) : t[i] \notin numeric}
  IN IF at = {} THEN "none"
     ELSE t[CHOOSE i \in at : \A j \in at : i <= j]

\* the value of a string of decimal digits below 1024, or -1
SmallDecimal(t) ==
  IF Len(t) \in 1..4 /\ \A i \in 1..Len(t) : t[i] \in {HexDigits[d] : d \in 1..10}
  THEN LET v[i \in 0..Len(t)] == IF i = 0 THEN 0 ELSE 10 * v[i - 1] + HexVal(t[i])
       IN v[Len(t)]
  ELSE -1

\* the number of limbs below the leading one: floor(log1024(n)) for n >= 1
Magnitude(n) == 7 - (CHOOSE i \in 1..7 : n[i] # 0 /\ \A j \in 1..(i - 1) : n[j] = 0)

\* C8 as stated: in the human modes a size below 1024 is its plain decimal
\* and every size from 1024 on carries one of the unit letters K, M, G, T: K
\* up to 1024^2, M up to 1024^3, G up to 1024^4, T from there on.
CexC8 ==
  (last.op = "out_get_size_str" /\ input.human \in {1, 2}) =>
    IF IsZero(input.size) \/ Magnitude(input.size) = 0
    THEN SmallDecimal(str_buff) = input.size[7]
    ELSE UnitOf(str_buff) =
           <<"K", "M", "G", "T">>[IF Magnitude(input.size) > 4 THEN 4
                                   ELSE Magnitude(input.size)]

====
